---- MODULE Spec2Model ----
(***************************************************************************)
(* Import & Reconciliation Engine of CMDBBoard.                            *)
(*                                                                         *)
(* The model follows backend/app/core/import_engine.py                     *)
(* (ReconciliationService), backend/app/core/field_mapper.py (FieldMapper, *)
(* ReconciliationConfig) and the CI create / soft-delete endpoints of      *)
(* backend/app/api/routes/ci_routes.py.  One import run is split at the    *)
(* points where the connector generator is resumed; every record of a      *)
(* batch is one step.  The SQLAlchemy session is modelled by a pair        *)
(* (log, logdb): the ImportLog row as the session sees it, pending         *)
(* changes included, and the row as last committed.  commit copies log to  *)
(* logdb, rollback copies logdb to log.                                    *)
(***************************************************************************)
EXTENDS Integers, Sequences, FiniteSets, TLC

\* ------------------------------------------------------------------------
\* Bounds of the model
\* ------------------------------------------------------------------------
MaxCIs == 2
MaxRuns == 2
MaxRecs == 2

\* ------------------------------------------------------------------------
\* Value domains
\* ------------------------------------------------------------------------
\* Python None / SQL NULL for string-valued attributes
NoneV == "<None>"

\* import_sources rows: ids 1 and 2 have a kind _get_connector knows, row 3
\* has a kind it does not know
SourceIds == {1, 2, 3}

SourceType(s) == CASE s = 1 -> "csv" [] s = 2 -> "vcenter" [] OTHER -> "ldap"

KnownKinds == {"csv", "vcenter"}

\* the shape of a connector's output, n being the number of batches yielded
\* so far.  CSVConnector.fetch_data yields the whole file as one batch (empty
\* for a file without rows) and raises only before that; VCenterConnector
\* yields any number of non-empty batches and may raise whenever it is
\* resumed (Disconnect in its finally clause included).
CanYield(kind, n, b) == IF kind = "csv" THEN n = 0 ELSE b # <<>>

CanStop(kind, n) == kind = "csv" => n = 1

CanRaise(kind, n) == kind = "csv" => n = 0

\* values of the raw columns the field mapping reads
RawIds == {NoneV, "7"}

RawTitles == {NoneV, "a", "A"}

RawDescs == {"x "}

\* RawRecord: the columns id, Title and Desc of one upstream row
RawRecords == [id : RawIds, Title : RawTitles, Desc : RawDescs]

\* values of reconciliation.update_mode in the configuration blob
UpdateModes == {"upsert", "update_only"}

\* source configuration blob: reconciliation.match_strategy,
\* reconciliation.conflict_resolution["description"],
\* reconciliation.update_mode and relationship_mapping (none configured)
Configs == [match_strategy : {"exact", "case_insensitive"},
            cr_description : {"source", "keep_local"},
            update_mode : UpdateModes,
            relationship_mapping : {<<>>}]

\* field_mapping of every source: canonical field -> source column
field_mapping == [name |-> "Title", description |-> "Desc"]

CanonFields == DOMAIN field_mapping

key_field == "name"

\* ------------------------------------------------------------------------
\* Pure helpers: FieldMapper and ReconciliationConfig
\* ------------------------------------------------------------------------
\* str.strip() on the values of the model
Strip(v) == IF v = "x " THEN "x" ELSE v

\* str.lower() on the values of the model
Lower(v) == IF v = "A" THEN "a" ELSE v

\* FieldMapper._get_nested_value for a one-segment path: the column's value,
\* None when the column is missing
GetNestedValue(raw, path) == IF path \in DOMAIN raw THEN raw[path] ELSE NoneV

\* FieldMapper._transform_value
TransformValue(v) == Strip(v)

\* FieldMapper.map_data: a canonical field is present iff its column is not None
map_data(raw) ==
  [f \in {g \in CanonFields : GetNestedValue(raw, field_mapping[g]) # NoneV}
     |-> TransformValue(GetNestedValue(raw, field_mapping[f]))]

\* ReconciliationConfig.get_match_value; None when the key field is not mapped
get_match_value(cfg, mapped) ==
  IF key_field \notin DOMAIN mapped THEN NoneV
  ELSE IF cfg.match_strategy = "case_insensitive" THEN Lower(mapped[key_field])
  ELSE mapped[key_field]

\* ReconciliationConfig.should_update_field: "source" unless configured
conflict_resolution(cfg) ==
  IF cfg.cr_description = "keep_local" THEN [description |-> "keep_local"]
  ELSE [f \in {} |-> "source"]

should_update_field(cfg, f) ==
  LET cr == conflict_resolution(cfg)
      resolution == IF f \in DOMAIN cr THEN cr[f] ELSE "source"
  IN resolution = "source"

\* ------------------------------------------------------------------------
\* The CI row and the raw_data column
\* ------------------------------------------------------------------------
\* raw_data column: NULL, or the JSON text of an object keyed by source kind
RawNull == [tag |-> "null"]

RawObject(sec) == [tag |-> "object", sec |-> sec]

EmptySections == [k \in {} |-> 0]

\* values of the JSON column that are not an object and not the JSON text of
\* one: a string that does not parse, a string that parses to a list, a
\* list, and the falsy values ("" or [])
RawBadText == [tag |-> "text"]

RawListText == [tag |-> "listtext"]

RawList == [tag |-> "list"]

RawFalsy == [tag |-> "falsy"]

MalformedRaw == {RawBadText, RawListText, RawList, RawFalsy}

\* variant of CurrentRaw that keeps what json.loads returned for a list
CurrentRawNoReset(rd) ==
  IF rd.tag = "object" THEN rd.sec
  ELSE IF rd.tag = "listtext" THEN [k \in {"0"} |-> NoneV]
  ELSE EmptySections

\* _update_ci lines 1447-1458: the sections already stored, {} when there are none
CurrentRaw(rd) == IF rd.tag = "object" THEN rd.sec ELSE EmptySections

\* variant of MergeRaw that overwrites raw_data with the current source's section
MergeRawOverwrite(rd, kind, raw) == RawObject([k \in {kind} |-> raw])

\* _update_ci lines 1461-1462: only the section of this source kind is replaced
MergeRaw(rd, kind, raw) ==
  LET cur == CurrentRaw(rd)
  IN RawObject([k \in (DOMAIN cur) \cup {kind} |-> IF k = kind THEN raw ELSE cur[k]])

\* dict.get(k): None when the raw record has no such key
RawGet(raw, k) == IF k \in DOMAIN raw THEN raw[k] ELSE NoneV

\* a or b on values that are None or non-empty strings
PyOr(a, b) == IF a # NoneV THEN a ELSE b

\* _process_record line 1254: the id the stable-identity lookup uses
LookupExternalId(raw) ==
  PyOr(PyOr(RawGet(raw, "id"), RawGet(raw, "ID")), RawGet(raw, "Id"))

\* _update_ci lines 1443-1444 and _create_ci line 1317: the id that is stored
StoredExternalId(raw) == PyOr(RawGet(raw, "id"), RawGet(raw, "ID"))

\* ConfigurationItem(**ci_data.model_dump()) of the create endpoint
NewApiCI(n) ==
  [name |-> n, description |-> NoneV, external_id |-> NoneV,
   import_source_id |-> 0, last_sync |-> 0, deleted_at |-> 0,
   raw_data |-> RawNull]

\* str(value) if value is not None else ""
StrOf(v) == IF v = NoneV THEN "" ELSE v

\* the mapped fields whose normalized string differs from the CI's value
ChangedFields(ci, mapped) ==
  {f \in DOMAIN mapped : StrOf(ci[f]) # StrOf(mapped[f])}

\* the "changes" dict of the audit entry
ChangesOf(ci, mapped) ==
  [f \in ChangedFields(ci, mapped) |->
     [old |-> StrOf(ci[f]), new |-> StrOf(mapped[f])]]

\* variant of UpdatedCI that leaves deleted_at as it is
UpdatedCIStillDeleted(ci, mapped, raw, kind, t) ==
  LET ch == ChangedFields(ci, mapped)
  IN [ci EXCEPT
        !.name = IF "name" \in ch THEN mapped["name"] ELSE @,
        !.description = IF "description" \in ch THEN mapped["description"] ELSE @,
        !.last_sync = t,
        !.external_id = IF StoredExternalId(raw) # NoneV THEN StoredExternalId(raw) ELSE @,
        !.raw_data = MergeRaw(@, kind, raw)]

\* _update_ci: the row after the update at time t by a source of the given kind
UpdatedCI(ci, mapped, raw, kind, t) ==
  LET ch == ChangedFields(ci, mapped)
  IN [ci EXCEPT
        !.name = IF "name" \in ch THEN mapped["name"] ELSE @,
        !.description = IF "description" \in ch THEN mapped["description"] ELSE @,
        !.last_sync = t,
        !.deleted_at = 0,
        !.external_id = IF StoredExternalId(raw) # NoneV THEN StoredExternalId(raw) ELSE @,
        !.raw_data = MergeRaw(@, kind, raw)]

\* ilike on the names of the model (no name holds a wildcard character)
ILike(v, pattern) == Lower(v) = Lower(pattern)

\* ------------------------------------------------------------------------
\* State
\* ------------------------------------------------------------------------
VARIABLES
  cis,        \* configuration_items rows, in insertion order (row i has id i)
  now,        \* the clock read by datetime.utcnow()
  srcLastRun, \* ImportSource.last_run per source id, 0 when NULL
  nruns,      \* number of ImportLog rows written so far (one per service)
  nrecs,      \* number of records the connectors have yielded so far
  pc,         \* position of the import run: idle, fetch, batch, done
  run,        \* locals of the ReconciliationService and of run_import
  log,        \* self.log as the session sees it (pending changes included)
  logdb,      \* the ImportLog row as last committed
  auditFile,  \* the audit-log file of the run
  rawFile,    \* the raw-data file of the run
  config,     \* the reconciliation section of the sources' configuration blob
  prev,       \* the last finalized run: source, config, batches, resulting rows
  ev,         \* the last record-level decision, for stating the properties
  unmatched,  \* history: <<source, id, title, run>> of keyed records that found no row
  rels,       \* relationships rows, in insertion order
  mapper,     \* a FieldMapper, the record handed to map_data and what it returned
  lastOk,     \* history: per source, completed_at of its latest run that ended success or partial_success
  idoit,      \* an IDoitConnector.fetch_data generator: ids listed, chunks requested, batches yielded
  schema,     \* an IDoitConnector.get_schema call: the sample object and the field paths returned
  sources,    \* import_sources rows as the scheduler and the routes see them
  scheduler,  \* the module-level AsyncIOScheduler: its job store and the uuids drawn
  workers,    \* the executor threads that run run_import_job
  logdir      \* the logs directory: <<source id, timestamp, ImportLog id>> of every file write

vars == <<cis, now, srcLastRun, nruns, nrecs, pc, run, log, logdb, auditFile, rawFile, config, prev, ev, unmatched, rels, mapper, lastOk, idoit, schema, sources, scheduler, workers, logdir>>

\* ImportLog(...) of ReconciliationService.__init__ after its commit
InitLog ==
  [status |-> "running", records_processed |-> 0, records_success |-> 0,
   records_failed |-> 0, records_created |-> 0, records_updated |-> 0,
   error_message |-> NoneV, completed_at |-> 0,
   details |-> [kind |-> "none", errors |-> <<>>]]

NoFile == [exists |-> FALSE, content |-> <<>>]

NoRun ==
  [src |-> 0, replay |-> FALSE, batch |-> <<>>, batches |-> <<>>,
   errors |-> <<>>, audit_log |-> <<>>, nfail |-> 0,
   processed_cis |-> <<>>, work |-> <<>>, relfail |-> 0, atrel |-> <<>>,
   last_run |-> 0, okAtStart |-> 0]

\* no i-doit generator under observation
NoIdoit ==
  [state |-> "none", all_ids |-> <<>>, i |-> 0, requests |-> <<>>,
   outcomes |-> <<>>, yielded |-> <<>>]

\* import_sources without rows; a row is absent, present or deleted
NoSource == [state |-> "absent", is_active |-> FALSE, schedule_cron |-> FALSE]

NoSources == [s \in SourceIds |-> NoSource]

\* a scheduler without jobs
NoScheduler == [jobs |-> {}, uuids |-> 0]

\* an idle executor thread
NoJob == [kind |-> "none", src |-> 0, uuid |-> 0]

FreeWorker ==
  [st |-> "free", src |-> 0, job |-> NoJob, stamp |-> 0, row |-> 0,
   rec |-> <<>>, idx |-> 0, snap |-> <<>>]

\* executor threads, manual triggers and clock seconds of the model
MaxWorkers == 2

MaxManual == 2

MaxTime == 2

\* the executor's threads, all idle
NoWorkers == [w \in 1..MaxWorkers |-> FreeWorker]

\* no schema introspection under observation
NoSchema == [state |-> "none", sample |-> <<>>, keys |-> {}]

\* no FieldMapper call under observation
NoMapper == [called |-> FALSE, field_mapping |-> <<>>, source_data |-> <<>>, mapped_data |-> <<>>]

NoPrev == [valid |-> FALSE, src |-> 0, batches |-> <<>>, cis |-> <<>>, rels |-> <<>>]

NoEv == [op |-> "none"]

Init ==
  /\ cis = <<>>
  /\ now = 1
  /\ srcLastRun = [s \in SourceIds |-> 0]
  /\ nruns = 0
  /\ nrecs = 0
  /\ pc = "idle"
  /\ run = NoRun
  /\ log = InitLog
  /\ logdb = InitLog
  /\ auditFile = NoFile
  /\ rawFile = NoFile
  /\ config \in Configs
  /\ prev = NoPrev
  /\ ev = NoEv
  /\ unmatched = {}
  /\ rels = <<>>
  /\ logdir = {}
  /\ workers = NoWorkers
  /\ scheduler = NoScheduler
  /\ sources = NoSources
  /\ schema = NoSchema
  /\ idoit = NoIdoit
  /\ lastOk = [s \in SourceIds |-> 0]
  /\ mapper = NoMapper

RECURSIVE Flatten(_)
\* all_raw_records: the batches yielded so far, concatenated
Flatten(bs) == IF bs = <<>> THEN <<>> ELSE Head(bs) \o Flatten(Tail(bs))

\* the batches a connector may yield
Batches == UNION {[1..n -> RawRecords] : n \in 0..MaxRecs}

\* ------------------------------------------------------------------------
\* Operator actions on the CI store (ci_routes.py), between import runs
\* ------------------------------------------------------------------------
\* POST /ci: a new row; names are not checked for uniqueness
ApiCreate(n) ==
  /\ pc = "idle"
  /\ Len(cis) < MaxCIs
  /\ cis' = Append(cis, NewApiCI(n))
  /\ prev' = NoPrev
  /\ ev' = NoEv
  /\ UNCHANGED <<now, srcLastRun, nruns, nrecs, pc, run, log, logdb, auditFile, rawFile, config, unmatched, rels, mapper, lastOk, idoit, schema, sources, scheduler, workers, logdir>>

\* DELETE /ci/{id}: soft delete of a row that is not deleted
ApiDelete(i) ==
  /\ pc \in {"idle", "done"}
  /\ i \in 1..Len(cis)
  /\ cis[i].deleted_at = 0
  /\ cis' = [cis EXCEPT ![i].deleted_at = now]
  /\ prev' = NoPrev
  /\ ev' = NoEv
  /\ UNCHANGED <<now, srcLastRun, nruns, nrecs, pc, run, log, logdb, auditFile, rawFile, config, unmatched, rels, mapper, lastOk, idoit, schema, sources, scheduler, workers, logdir>>

\* ------------------------------------------------------------------------
\* ReconciliationService: one import run
\* ------------------------------------------------------------------------
Commit(l) == l

\* the session's view after db.rollback(): every pending change is dropped
Rollback == logdb

\* the except branch of run_import (lines 1214-1220) for exception message msg
\* variant of OuterFailure that does not stamp completed_at
OuterFailureNotStamped(rolledBack, msg, t) ==
  [rolledBack EXCEPT !.status = "failed", !.error_message = msg]

OuterFailure(rolledBack, msg, t) ==
  Commit([rolledBack EXCEPT !.status = "failed", !.error_message = msg,
                            !.completed_at = t])

\* variant of InjectLastRun that never puts last_run in the configuration
InjectLastRunNever(last_run) == 0

\* _get_connector lines 1224-1225: config['last_run'] is the source's
\* last_run when that is set, and stays absent (0) when it is NULL
InjectLastRun(last_run) == IF last_run # 0 THEN last_run ELSE 0

\* __init__ and run_import up to connector.fetch_data() for a known source kind
StartRun(s, replay) ==
  /\ pc \in {"idle", "done"}
  /\ nruns < MaxRuns
  /\ SourceType(s) \in KnownKinds
  /\ replay => (prev.valid /\ prev.src = s)
  /\ now' = now + 1
  /\ nruns' = nruns + 1
  /\ log' = [InitLog EXCEPT !.records_processed = 0]
  /\ logdb' = InitLog
  /\ run' = [NoRun EXCEPT !.src = s, !.replay = replay,
                          !.last_run = InjectLastRun(srcLastRun[s]),
                          !.okAtStart = lastOk[s]]
  /\ auditFile' = NoFile
  /\ rawFile' = NoFile
  /\ pc' = "fetch"
  /\ ev' = NoEv
  /\ UNCHANGED <<cis, srcLastRun, nrecs, config, prev, unmatched, rels, mapper, lastOk, idoit, schema, sources, scheduler, workers, logdir>>

\* _get_connector returns None: ValueError("Unknown source type") is raised
\* inside the try and handled by the except branch
StartRunUnknown(s) ==
  /\ pc \in {"idle", "done"}
  /\ nruns < MaxRuns
  /\ SourceType(s) \notin KnownKinds
  /\ now' = now + 1
  /\ nruns' = nruns + 1
  /\ run' = [NoRun EXCEPT !.src = s,
                          !.last_run = InjectLastRun(srcLastRun[s]),
                          !.okAtStart = lastOk[s]]
  /\ logdb' = OuterFailure(InitLog, "Unknown source type", now + 1)
  /\ log' = logdb'
  /\ auditFile' = NoFile
  /\ rawFile' = NoFile
  /\ pc' = "done"
  /\ prev' = NoPrev
  /\ ev' = [op |-> "outer", msg |-> "Unknown source type", committed |-> InitLog]
  /\ UNCHANGED <<cis, srcLastRun, nrecs, config, unmatched, rels, mapper, lastOk, idoit, schema, sources, scheduler, workers, logdir>>

\* the generator raises when resumed (connect failure, failed id listing,
\* failure while paging): the except branch of run_import
ConnectorRaises ==
  /\ pc = "fetch"
  /\ ~run.replay
  /\ CanRaise(SourceType(run.src), Len(run.batches))
  /\ logdb' = OuterFailure(Rollback, "Failed to connect", now)
  /\ log' = logdb'
  /\ pc' = "done"
  /\ prev' = NoPrev
  /\ ev' = [op |-> "outer", msg |-> "Failed to connect", committed |-> logdb]
  /\ UNCHANGED <<cis, now, srcLastRun, nruns, nrecs, run, auditFile, rawFile, config, unmatched, rels, mapper, lastOk, idoit, schema, sources, scheduler, workers, logdir>>

\* the generator yields the next batch (line 1123-1125)
FetchBatch(b) ==
  /\ pc = "fetch"
  /\ IF run.replay
     THEN /\ Len(run.batches) < Len(prev.batches)
          /\ b = prev.batches[Len(run.batches) + 1]
          /\ nrecs' = nrecs
     ELSE /\ CanYield(SourceType(run.src), Len(run.batches), b)
          /\ nrecs + Len(b) <= MaxRecs
          /\ nrecs' = nrecs + Len(b)
  /\ run' = [run EXCEPT !.batch = b, !.batches = Append(@, b)]
  /\ pc' = "batch"
  /\ ev' = NoEv
  /\ UNCHANGED <<cis, now, srcLastRun, nruns, log, logdb, auditFile, rawFile, config, prev, unmatched, rels, mapper, lastOk, idoit, schema, sources, scheduler, workers, logdir>>

\* the record being processed and its mapping
Rec == Head(run.batch)

Mapped == map_data(Rec)

MatchValue == get_match_value(config, Mapped)

\* lines 1254-1261: rows with this external id written by this source
ExtMatches ==
  IF LookupExternalId(Rec) = NoneV THEN {}
  ELSE {i \in 1..Len(cis) : /\ cis[i].external_id = LookupExternalId(Rec)
                            /\ cis[i].import_source_id = run.src}

\* lines 1264-1275: rows whose key field matches; deleted rows are not excluded
KeyMatches ==
  {i \in 1..Len(cis) :
     IF config.match_strategy = "case_insensitive"
     THEN ILike(cis[i][key_field], MatchValue)
     ELSE cis[i][key_field] = MatchValue}

\* the rows .first() may return: the id match if there is one, else the key match
Candidates == IF ExtMatches # {} THEN ExtMatches ELSE KeyMatches

\* _process_record lines 1246-1250: no reconciliation key in the mapped record
RecordNoKey ==
  /\ pc = "batch"
  /\ run.batch # <<>>
  /\ MatchValue = NoneV
  /\ log' = [log EXCEPT !.records_processed = @ + 1, !.records_failed = @ + 1]
  /\ run' = [run EXCEPT !.batch = Tail(@), !.nfail = @ + 1]
  /\ ev' = [op |-> "nokey", rec |-> Rec]
  /\ UNCHANGED <<cis, now, srcLastRun, nruns, nrecs, pc, logdb, auditFile, rawFile, config, prev, unmatched, rels, mapper, lastOk, idoit, schema, sources, scheduler, workers, logdir>>

\* _process_record lines 1277-1283 with _update_ci: row i is updated and
\* committed, then the counters are incremented in the session
RecordUpdate(i) ==
  /\ pc = "batch"
  /\ run.batch # <<>>
  /\ MatchValue # NoneV
  /\ i \in Candidates
  /\ LET ci == cis[i]
         new == UpdatedCI(ci, Mapped, Rec, SourceType(run.src), now)
         changes == ChangesOf(ci, Mapped)
         was_updated == DOMAIN changes # {}
         entry == IF was_updated
                  THEN [action |-> "updated", ci_id |-> i, ci_name |-> new.name,
                        changes |-> changes]
                  ELSE [action |-> "unchanged", ci_id |-> i, ci_name |-> new.name]
     IN /\ cis' = [cis EXCEPT ![i] = new]
        /\ logdb' = Commit([log EXCEPT !.records_processed = @ + 1])
        /\ log' = [logdb' EXCEPT !.records_success = @ + 1,
                                 !.records_updated = IF was_updated THEN @ + 1 ELSE @]
        /\ run' = [run EXCEPT !.batch = Tail(@), !.audit_log = Append(@, entry),
                              !.processed_cis = Append(@, [ci |-> i, raw |-> Rec])]
        /\ ev' = [op |-> "update", idx |-> i, before |-> ci, rec |-> Rec,
                  via |-> IF ExtMatches # {} THEN "external_id" ELSE "key"]
  /\ UNCHANGED <<now, srcLastRun, nruns, nrecs, pc, auditFile, rawFile, config, prev, unmatched, rels, mapper, lastOk, idoit, schema, sources, scheduler, workers, logdir>>

\* _process_record line 1284 with no row found: recon_config has no attribute
\* update_mode (field_mapper.py lines 89-91), so AttributeError is raised and
\* handled by run_import lines 1136-1143
RecordUnmatched ==
  /\ pc = "batch"
  /\ run.batch # <<>>
  /\ MatchValue # NoneV
  /\ Candidates = {}
  /\ log' = [Rollback EXCEPT !.records_failed = @ + 1]
  /\ run' = [run EXCEPT !.batch = Tail(@), !.nfail = @ + 1,
                        !.errors = Append(@, [record |-> Rec, error |-> "AttributeError"])]
  /\ ev' = [op |-> "unmatched", rec |-> Rec]
  /\ unmatched' = unmatched \cup {<<run.src, Rec.id, Rec.Title, nruns>>}
  /\ UNCHANGED <<cis, now, srcLastRun, nruns, nrecs, pc, logdb, auditFile, rawFile, config, prev, rels, mapper, lastOk, idoit, schema, sources, scheduler, workers, logdir>>

\* variant of EndBatch that writes the raw-data file only if it does not exist
EndBatchRawOnce ==
  /\ pc = "batch"
  /\ run.batch = <<>>
  /\ auditFile' = [exists |-> TRUE, content |-> run.audit_log]
  /\ rawFile' = IF rawFile.exists THEN rawFile
                ELSE [exists |-> TRUE, content |-> Flatten(run.batches)]
  /\ logdb' = Commit([log EXCEPT !.details = [kind |-> "progress", errors |-> run.errors]])
  /\ log' = logdb'
  /\ pc' = "fetch"
  /\ ev' = NoEv
  /\ UNCHANGED <<cis, now, srcLastRun, nruns, nrecs, run, config, prev, unmatched, rels, mapper, lastOk, idoit, schema, sources, scheduler, workers, logdir>>

\* lines 1145-1171: commit, rewrite both files, store the progress details
EndBatch ==
  /\ pc = "batch"
  /\ run.batch = <<>>
  /\ auditFile' = [exists |-> TRUE, content |-> run.audit_log]
  /\ rawFile' = [exists |-> TRUE, content |-> Flatten(run.batches)]
  /\ logdb' = Commit([log EXCEPT !.details = [kind |-> "progress", errors |-> run.errors]])
  /\ log' = logdb'
  /\ pc' = "fetch"
  /\ ev' = NoEv
  /\ UNCHANGED <<cis, now, srcLastRun, nruns, nrecs, run, config, prev, unmatched, rels, mapper, lastOk, idoit, schema, sources, scheduler, workers, logdir>>

\* variant of FinalStatus that compares the success and processed counters
FinalStatusBySuccess(l) ==
  IF l.records_success = l.records_processed THEN "success" ELSE "partial_success"

\* the for loop over the generator ends: the connector has no further batch
GeneratorExhausted ==
  /\ pc = "fetch"
  /\ run.replay => Len(run.batches) = Len(prev.batches)
  /\ CanStop(SourceType(run.src), Len(run.batches))

\* variant of FinalStatus that leaves the status of the row as it is
FinalStatusUnset(l) == l.status

\* line 1209: the status of a run whose batch loop completed
FinalStatus(l) == IF l.records_failed = 0 THEN "success" ELSE "partial_success"

\* the canonical fields and identity of every row, sync timestamps left out
FieldView(rows) ==
  [i \in 1..Len(rows) |->
     [name |-> rows[i].name, description |-> rows[i].description,
      external_id |-> rows[i].external_id, deleted_at |-> rows[i].deleted_at]]

\* lines 1186-1212, after the generator is exhausted and the relationship
\* pass, if relationship_mapping is configured, has gone through its pairs;
\* track tells whether the finished run is remembered in prev
Finalize(track) ==
  /\ \/ GeneratorExhausted /\ config.relationship_mapping = <<>>
     \/ pc = "rel" /\ run.work = <<>>
  /\ auditFile' = [exists |-> TRUE, content |-> run.audit_log]
  /\ logdb' = Commit([log EXCEPT
        !.details = [kind |-> "final", errors |-> run.errors],
        !.status = FinalStatus(log),
        !.completed_at = now])
  /\ log' = logdb'
  /\ srcLastRun' = [srcLastRun EXCEPT ![run.src] = now]
  /\ lastOk' = IF logdb'.status \in {"success", "partial_success"}
               THEN [lastOk EXCEPT ![run.src] = logdb'.completed_at]
               ELSE lastOk
  /\ pc' = "done"
  /\ prev' = IF track
             THEN [valid |-> TRUE, src |-> run.src,
                   batches |-> run.batches, cis |-> cis, rels |-> rels]
             ELSE NoPrev
  /\ ev' = [op |-> "final", replay |-> run.replay,
            same |-> run.replay => (FieldView(cis) = FieldView(prev.cis)),
            relsame |-> run.replay => (rels = prev.rels)]
  /\ UNCHANGED <<cis, now, nruns, nrecs, run, rawFile, config, unmatched, rels, mapper, idoit, schema, sources, scheduler, workers, logdir>>

\* ------------------------------------------------------------------------
\* Second pass: _process_relationships over processed_cis
\* ------------------------------------------------------------------------
\* relationship_mapping entries: one with the default separator and one
\* whose separator is the empty string, for which str.split raises ValueError
MappingParent ==
  [source_column |-> "Parent", relationship_type |-> "runs_on", separator |-> ","]

MappingPeer ==
  [source_column |-> "Peer", relationship_type |-> "depends_on", separator |-> ""]

\* configuration blobs with relationship_mapping configured
RelConfigs == [match_strategy : {"exact", "case_insensitive"},
               cr_description : {"source"},
               update_mode : {"upsert"},
               relationship_mapping : {<<MappingParent, MappingPeer>>}]

\* raw records with the columns the relationship mappings read
RelRecords == [id : {NoneV}, Title : {"a", "A"}, Desc : {"x "},
               Parent : {NoneV, "a,a"}, Peer : {NoneV, "A"}]

RelBatches == UNION {[1..n -> RelRecords] : n \in 0..MaxRecs}

\* [n.strip() for n in str(raw_value).split(separator) if n.strip()] on the
\* values of the model, for a non-empty separator
SplitNames(v, sep) == IF sep = "," /\ v = "a,a" THEN <<"a", "a">> ELSE <<v>>

RECURSIVE PairWork(_, _, _)
\* the lookups _process_relationships makes for one (ci, raw_record) pair, in
\* order: one per target name of every mapping whose column has a value, up
\* to the first mapping whose split raises
PairWork(i, raw, mappings) ==
  IF mappings = <<>> THEN <<>>
  ELSE LET m == Head(mappings)
           raw_value == GetNestedValue(raw, m.source_column)
           names == SplitNames(raw_value, m.separator)
       IN IF raw_value = NoneV THEN PairWork(i, raw, Tail(mappings))
          ELSE IF m.separator = "" THEN <<[kind |-> "raise", src |-> i]>>
          ELSE [k \in 1..Len(names) |->
                  [kind |-> "target", src |-> i, name |-> names[k],
                   type |-> m.relationship_type]]
               \o PairWork(i, raw, Tail(mappings))

RECURSIVE RelWork(_, _)
\* the lookups of the whole pass, pair after pair
RelWork(pairs, mappings) ==
  IF pairs = <<>> THEN <<>>
  ELSE PairWork(Head(pairs).ci, Head(pairs).raw, mappings)
       \o RelWork(Tail(pairs), mappings)

\* the five record counters of an ImportLog
Counters(l) ==
  <<l.records_processed, l.records_success, l.records_failed,
    l.records_created, l.records_updated>>

\* line 1175: the generator is exhausted and relationship_mapping is configured
BeginRelPass ==
  /\ GeneratorExhausted
  /\ config.relationship_mapping # <<>>
  /\ pc' = "rel"
  /\ run' = [run EXCEPT !.work = RelWork(run.processed_cis, config.relationship_mapping),
                        !.atrel = Counters(log)]
  /\ ev' = NoEv
  /\ UNCHANGED <<cis, now, srcLastRun, nruns, nrecs, log, logdb, auditFile, rawFile, config, prev, unmatched, rels, mapper, lastOk, idoit, schema, sources, scheduler, workers, logdir>>

\* the lookup the pass is at
Item == Head(run.work)

\* lines 1375-1378: non-deleted rows with exactly the target name
Targets(name) ==
  {j \in 1..Len(cis) : cis[j].name = name /\ cis[j].deleted_at = 0}

\* lines 1385-1389: a row with this source, target and type exists
RelExists(s, t, ty) ==
  \E k \in 1..Len(rels) :
    rels[k] = [source_ci_id |-> s, target_ci_id |-> t, relationship_type |-> ty]

\* variant of RelRaise in which the exception is not caught in the pass and
\* reaches the except branch of run_import
RelRaisePropagates ==
  /\ pc = "rel"
  /\ run.work # <<>>
  /\ Item.kind = "raise"
  /\ run' = [run EXCEPT !.relfail = @ + 1]
  /\ logdb' = OuterFailure(Rollback, "empty separator", now)
  /\ log' = logdb'
  /\ pc' = "done"
  /\ prev' = NoPrev
  /\ ev' = [op |-> "outer", msg |-> "empty separator", committed |-> logdb]
  /\ UNCHANGED <<cis, now, srcLastRun, nruns, nrecs, auditFile, rawFile, config, unmatched, rels, mapper, lastOk, idoit, schema, sources, scheduler, workers, logdir>>

\* line 1370 raises inside _process_relationships; lines 1182-1184 catch it,
\* and the loop goes on with the next pair
RelRaise ==
  /\ pc = "rel"
  /\ run.work # <<>>
  /\ Item.kind = "raise"
  /\ run' = [run EXCEPT !.work = Tail(@), !.relfail = @ + 1]
  /\ ev' = [op |-> "relerror", src |-> Item.src]
  /\ UNCHANGED <<cis, now, srcLastRun, nruns, nrecs, pc, log, logdb, auditFile, rawFile, config, prev, unmatched, rels, mapper, lastOk, idoit, schema, sources, scheduler, workers, logdir>>

\* lines 1380-1382: no non-deleted row has the target name
RelNoTarget ==
  /\ pc = "rel"
  /\ run.work # <<>>
  /\ Item.kind = "target"
  /\ Targets(Item.name) = {}
  /\ run' = [run EXCEPT !.work = Tail(@)]
  /\ ev' = [op |-> "relskip"]
  /\ UNCHANGED <<cis, now, srcLastRun, nruns, nrecs, pc, log, logdb, auditFile, rawFile, config, prev, unmatched, rels, mapper, lastOk, idoit, schema, sources, scheduler, workers, logdir>>

\* lines 1384-1408: .first() returned row j; the relationship is inserted and
\* committed unless a row with the same triple exists
RelLink(j) ==
  /\ pc = "rel"
  /\ run.work # <<>>
  /\ Item.kind = "target"
  /\ j \in Targets(Item.name)
  /\ IF RelExists(Item.src, j, Item.type)
     THEN /\ run' = [run EXCEPT !.work = Tail(@)]
          /\ UNCHANGED <<rels, log, logdb>>
     ELSE /\ rels' = Append(rels, [source_ci_id |-> Item.src, target_ci_id |-> j,
                                   relationship_type |-> Item.type])
          /\ logdb' = Commit(log)
          /\ log' = logdb'
          /\ run' = [run EXCEPT !.work = Tail(@),
                       !.audit_log = Append(@, [action |-> "relationship_created",
                                                source |-> cis[Item.src].name,
                                                target |-> Item.name,
                                                type |-> Item.type])]
  /\ ev' = [op |-> "link", created |-> ~RelExists(Item.src, j, Item.type)]
  /\ UNCHANGED <<cis, now, srcLastRun, nruns, nrecs, pc, auditFile, rawFile, config, prev, unmatched, mapper, lastOk, idoit, schema, sources, scheduler, workers, logdir>>

\* ------------------------------------------------------------------------
\* FieldMapper on nested records (field_mapper.py lines 8-76)
\* ------------------------------------------------------------------------
\* longest string value and longest source path, in characters
MaxStr == 3
MaxPath == 3

\* characters of string values; str.strip() removes the whitespace ones
StrChars == {" ", "a"}
Whitespace == {" "}
Strings == UNION {[1..n -> StrChars] : n \in 0..MaxStr}

\* values of a raw record: strings, numbers, None and nested dicts
StrV(s) == [k |-> "str", s |-> s]
IntV(n) == [k |-> "int", n |-> n]
PyNone == [k |-> "null"]
DictV(d) == [k |-> "dict", d |-> d]
Scalars == {StrV(s) : s \in Strings} \cup {IntV(7), PyNone}

\* dict keys and source paths are strings, written as character sequences
KeyT == <<"T">>
KeyO == <<"O">>
KeyE == <<"E">>
PathChars == {"T", "O", "E", "."}
Paths == UNION {[1..n -> PathChars] : n \in 0..MaxPath}

\* dicts nested in a raw record: any of the keys "E" and "" may be present
InnerVals == {StrV(<<" ", "a">>), IntV(7), PyNone}
InnerDicts == UNION {[D -> InnerVals] : D \in SUBSET {KeyE, <<>>}}

\* raw records handed to map_data: "T" holds a scalar, "O" a scalar or a dict
SourceData ==
  UNION {{d \in [D -> Scalars \cup {DictV(i) : i \in InnerDicts}] :
            /\ KeyT \in D => d[KeyT] \in Scalars
            /\ KeyO \in D => d[KeyO] \in {StrV(<<"a", " ">>), PyNone}
                                       \cup {DictV(i) : i \in InnerDicts}}
         : D \in SUBSET {KeyT, KeyO}}

\* field_mapping dicts: one canonical field under any path, or two fields
FieldMappings ==
  [{"name"} -> Paths]
    \cup [{"name", "owner"} -> {KeyT, KeyO, <<"O", ".", "E">>}]

\* str.split('.'), line 51
RECURSIVE str_split(_)
str_split(p) ==
  IF \A i \in 1..Len(p) : p[i] # "." THEN <<p>>
  ELSE LET i == CHOOSE k \in 1..Len(p) : p[k] = "." /\ \A j \in 1..(k - 1) : p[j] # "."
       IN  <<SubSeq(p, 1, i - 1)>> \o str_split(SubSeq(p, i + 1, Len(p)))

\* lines 52-60: the loop over the keys, None as soon as current is not a
\* dict or lacks the key
RECURSIVE FieldMapper_walk(_, _)
FieldMapper_walk(current, keys) ==
  IF keys = <<>> THEN current
  ELSE IF current.k = "dict" /\ Head(keys) \in DOMAIN current.d
       THEN FieldMapper_walk(current.d[Head(keys)], Tail(keys))
       ELSE PyNone

\* FieldMapper._get_nested_value, lines 40-60
FieldMapper_get_nested_value(data, path) ==
  FieldMapper_walk(DictV(data), str_split(path))

\* str.strip(): leading, then trailing whitespace removed
RECURSIVE str_lstrip(_)
str_lstrip(s) ==
  IF s # <<>> /\ Head(s) \in Whitespace THEN str_lstrip(Tail(s)) ELSE s

RECURSIVE str_rstrip(_)
str_rstrip(s) ==
  IF s # <<>> /\ s[Len(s)] \in Whitespace THEN str_rstrip(SubSeq(s, 1, Len(s) - 1)) ELSE s

str_strip(s) == str_rstrip(str_lstrip(s))

\* variant of _transform_value that returns every value as it is
FieldMapper_transform_value_asis(value) == value

\* FieldMapper._transform_value, lines 62-76
FieldMapper_transform_value(value) ==
  IF value.k = "str" THEN StrV(str_strip(value.s)) ELSE value

\* FieldMapper.map_data, lines 21-38
FieldMapper_map_data(self_field_mapping, source_data) ==
  [f \in {g \in DOMAIN self_field_mapping :
            FieldMapper_get_nested_value(source_data, self_field_mapping[g]) # PyNone}
     |-> FieldMapper_transform_value(
           FieldMapper_get_nested_value(source_data, self_field_mapping[f]))]

\* a call of mapper.map_data(source_data)
MapDataCall ==
  /\ ~mapper.called
  /\ mapper' = [mapper EXCEPT !.called = TRUE,
                              !.mapped_data = FieldMapper_map_data(mapper.field_mapping,
                                                                   mapper.source_data)]
  /\ UNCHANGED <<cis, now, srcLastRun, nruns, nrecs, pc, run, log, logdb, auditFile, rawFile, config, prev, ev, unmatched, rels, lastOk, idoit, schema, sources, scheduler, workers, logdir>>

\* ------------------------------------------------------------------------
\* IDoitConnector.fetch_data (import_engine.py lines 279-378)
\* ------------------------------------------------------------------------
\* most ids the id listing returns in the model
MaxIds == 101

\* line 321
chunk_size == 50

Min(a, b) == IF a < b THEN a ELSE b

\* all_ids[i:i + chunk_size], line 324
ChunkAt(all_ids, i) == SubSeq(all_ids, i + 1, Min(i + chunk_size, Len(all_ids)))

\* batch_result['result'] of a request that succeeded: one object per id asked for
ChunkResult(chunk_ids) == [k \in 1..Len(chunk_ids) |-> [id |-> chunk_ids[k]]]

\* lines 279-318: the id listing answers with n objects, ids in ascending
\* order; the generator returns at once when there is none
ListIds(n) ==
  /\ idoit.state = "start"
  /\ idoit' = [idoit EXCEPT !.all_ids = [k \in 1..n |-> k],
                            !.state = IF n = 0 THEN "done" ELSE "paging"]
  /\ UNCHANGED <<cis, now, srcLastRun, nruns, nrecs, pc, run, log, logdb, auditFile, rawFile, config, prev, ev, unmatched, rels, mapper, lastOk, schema, sources, scheduler, workers, logdir>>

\* lines 297-307 and 374-376: the id listing fails and the generator raises
ListIdsFails ==
  /\ idoit.state = "start"
  /\ idoit' = [idoit EXCEPT !.state = "raised"]
  /\ UNCHANGED <<cis, now, srcLastRun, nruns, nrecs, pc, run, log, logdb, auditFile, rawFile, config, prev, ev, unmatched, rels, mapper, lastOk, schema, sources, scheduler, workers, logdir>>

\* the loop of line 323 has a next chunk
HasChunk == idoit.state = "paging" /\ idoit.i < Len(idoit.all_ids)

\* lines 343-365: the request of the chunk succeeds and its result is yielded
ChunkOk ==
  /\ HasChunk
  /\ idoit' = [idoit EXCEPT
        !.requests = Append(@, ChunkAt(idoit.all_ids, idoit.i)),
        !.outcomes = Append(@, "ok"),
        !.yielded = Append(@, ChunkResult(ChunkAt(idoit.all_ids, idoit.i))),
        !.i = @ + chunk_size]
  /\ UNCHANGED <<cis, now, srcLastRun, nruns, nrecs, pc, run, log, logdb, auditFile, rawFile, config, prev, ev, unmatched, rels, mapper, lastOk, schema, sources, scheduler, workers, logdir>>

\* variant of ChunkSkipped that leaves the loop at the first failed chunk
ChunkSkippedStops(why) ==
  /\ HasChunk
  /\ idoit' = [idoit EXCEPT
        !.requests = Append(@, ChunkAt(idoit.all_ids, idoit.i)),
        !.outcomes = Append(@, why),
        !.state = "done"]
  /\ UNCHANGED <<cis, now, srcLastRun, nruns, nrecs, pc, run, log, logdb, auditFile, rawFile, config, prev, ev, unmatched, rels, mapper, lastOk, schema, sources, scheduler, workers, logdir>>

\* lines 353-355 (the answer carries an error) and 370-372 (the request
\* raised): the chunk is logged and the loop continues with the next one
ChunkSkipped(why) ==
  /\ HasChunk
  /\ idoit' = [idoit EXCEPT
        !.requests = Append(@, ChunkAt(idoit.all_ids, idoit.i)),
        !.outcomes = Append(@, why),
        !.i = @ + chunk_size]
  /\ UNCHANGED <<cis, now, srcLastRun, nruns, nrecs, pc, run, log, logdb, auditFile, rawFile, config, prev, ev, unmatched, rels, mapper, lastOk, schema, sources, scheduler, workers, logdir>>

\* the range of line 323 is exhausted: the generator returns
PagingDone ==
  /\ idoit.state = "paging"
  /\ idoit.i >= Len(idoit.all_ids)
  /\ idoit' = [idoit EXCEPT !.state = "done"]
  /\ UNCHANGED <<cis, now, srcLastRun, nruns, nrecs, pc, run, log, logdb, auditFile, rawFile, config, prev, ev, unmatched, rels, mapper, lastOk, schema, sources, scheduler, workers, logdir>>

\* ------------------------------------------------------------------------
\* IDoitConnector._flatten_schema (import_engine.py lines 476-495)
\* ------------------------------------------------------------------------
\* a list value of a raw record
ListV(l) == [k |-> "list", l |-> l]

\* sample objects: "T" holds a scalar; "O" a scalar, a dict, a list of one
\* dict, a list of one scalar or an empty list; the nested dicts hold "E"
SampleInner == UNION {[D -> InnerVals] : D \in SUBSET {KeyE}}

SampleValuesO ==
  {StrV(<<"a">>), ListV(<<>>), ListV(<<StrV(<<"a">>)>>)}
    \cup {DictV(i) : i \in SampleInner}
    \cup {ListV(<<DictV(i)>>) : i \in SampleInner}

Samples ==
  UNION {{d \in [D -> {StrV(<<"a">>), PyNone} \cup SampleValuesO] :
            /\ KeyT \in D => d[KeyT] \in {StrV(<<"a">>), PyNone}
            /\ KeyO \in D => d[KeyO] \in SampleValuesO}
         : D \in SUBSET {KeyT, KeyO}}

\* longest field path of a schema, in characters
MaxSchemaPath == 5

\* the strings a field path of a sample object can be
SchemaPaths == UNION {[1..n -> PathChars \cup {"0"}] : n \in 1..MaxSchemaPath}

\* _flatten_schema: the keys collected for data under prefix; the code
\* returns them as a sorted list without duplicates
RECURSIVE flatten_schema(_, _)
flatten_schema(data, prefix) ==
  UNION {LET full_key == prefix \o k
             v == data[k]
         IN  IF v.k = "dict"
             THEN flatten_schema(v.d, full_key \o <<".">>)
             ELSE IF v.k = "list"
                  THEN IF Len(v.l) > 0 /\ v.l[1].k = "dict"
                       THEN flatten_schema(v.l[1].d, full_key \o <<".", "0", ".">>)
                       ELSE {full_key}
                  ELSE {full_key}
         : k \in DOMAIN data}

\* get_schema lines 466-468: the first object of the answer is flattened
FlattenSchema ==
  /\ schema.state = "start"
  /\ schema' = [schema EXCEPT !.keys = flatten_schema(schema.sample, <<>>),
                              !.state = "flattened"]
  /\ UNCHANGED <<cis, now, srcLastRun, nruns, nrecs, pc, run, log, logdb, auditFile, rawFile, config, prev, ev, unmatched, rels, mapper, lastOk, idoit, sources, scheduler, workers, logdir>>

\* a field path of the schema is put into field_mapping and a FieldMapper
\* is built for it (ReconciliationService.__init__ line 1079); the sample
\* object is the record it will be handed
UseSchemaField(path) ==
  /\ schema.state = "flattened"
  /\ path \in schema.keys
  /\ mapper = NoMapper
  /\ mapper' = [called |-> FALSE, field_mapping |-> [f \in {"name"} |-> path],
                source_data |-> schema.sample, mapped_data |-> <<>>]
  /\ UNCHANGED <<cis, now, srcLastRun, nruns, nrecs, pc, run, log, logdb, auditFile, rawFile, config, prev, ev, unmatched, rels, lastOk, idoit, schema, sources, scheduler, workers, logdir>>

\* ------------------------------------------------------------------------
\* Scheduler (scheduler.py) and the source routes (import_routes.py)
\* ------------------------------------------------------------------------
\* the sources the routes create in the model
SchedSources == {1, 2}

\* schedule_job line 97 and lines 105-111: the cron job of a source
CronJob(s) == [kind |-> "cron", src |-> s, uuid |-> 0]

\* run_import_source lines 186-194: a date job with a fresh uuid in its id
ManualJob(s, u) == [kind |-> "manual", src |-> s, uuid |-> u]

\* the job ids the job store can hold
JobIds ==
  {CronJob(s) : s \in SchedSources} \cup {ManualJob(s, u) : s \in SchedSources, u \in 1..MaxManual}

\* the variables of the run model, which the scheduler steps leave alone
runvars == <<nrecs, pc, run, log, logdb, auditFile, rawFile, config, prev, unmatched, rels, mapper, lastOk, idoit, schema>>

\* create_import_source lines 121-128: the row is added and, if it is
\* active and has a cron expression, its job is scheduled
CreateSource(s, active, cron) ==
  /\ sources[s].state = "absent"
  /\ sources' = [sources EXCEPT ![s] = [state |-> "present", is_active |-> active,
                                          schedule_cron |-> cron]]
  /\ scheduler' = IF active /\ cron
                  THEN [scheduler EXCEPT !.jobs = @ \cup {CronJob(s)}]
                  ELSE scheduler
  /\ ev' = NoEv
  /\ UNCHANGED <<cis, now, srcLastRun, nruns, workers, logdir, runvars>>

\* update_import_source lines 346-361: the row is rewritten, here its
\* is_active; the job store is not touched
UpdateSource(s, active) ==
  /\ sources[s].state = "present"
  /\ sources[s].is_active # active
  /\ sources' = [sources EXCEPT ![s].is_active = active]
  /\ ev' = NoEv
  /\ UNCHANGED <<cis, now, srcLastRun, nruns, scheduler, workers, logdir, runvars>>

\* delete_import_source lines 325-334: the row is deleted; the job store is
\* not touched
DeleteSource(s) ==
  /\ sources[s].state = "present"
  /\ sources' = [sources EXCEPT ![s].state = "deleted"]
  /\ ev' = NoEv
  /\ UNCHANGED <<cis, now, srcLastRun, nruns, scheduler, workers, logdir, runvars>>

\* run_import_source lines 169-194: 404 without a row, else a date job is
\* added whatever the row's is_active and whatever is running
ManualTrigger(s) ==
  /\ sources[s].state = "present"
  /\ scheduler.uuids < MaxManual
  /\ scheduler' = [jobs |-> scheduler.jobs \cup {ManualJob(s, scheduler.uuids + 1)},
                   uuids |-> scheduler.uuids + 1]
  /\ ev' = NoEv
  /\ UNCHANGED <<cis, now, srcLastRun, nruns, sources, workers, logdir, runvars>>

\* variant of SourceRunnable that runs every source
SourceRunnableAlways(s) == TRUE

\* run_import_job lines 30-33: the row exists and is active
SourceRunnable(s) == sources[s].state = "present" /\ sources[s].is_active

\* the scheduler runs at most one instance of a job id at a time (the
\* default max_instances); jobs with different ids run side by side
CanFire(j) ==
  j.kind = "cron" => \A w \in 1..MaxWorkers : workers[w].job # j

\* the trigger of job j fires and run_import_job starts on thread w, the
\* first idle thread of the pool: it
\* returns at line 33, or constructs the service (one ImportLog row) and
\* enters run_import, where line 1109 reads the clock for the file names
RunImportJob(j, w) ==
  /\ j \in scheduler.jobs
  /\ workers[w].st = "free"
  /\ \A v \in 1..(w - 1) : workers[v].st # "free"
  /\ CanFire(j)
  /\ scheduler' = IF j.kind = "manual"
                  THEN [scheduler EXCEPT !.jobs = @ \ {j}]
                  ELSE scheduler
  /\ IF SourceRunnable(j.src)
     THEN /\ nruns < MaxRuns
          /\ nruns' = nruns + 1
          /\ workers' = [workers EXCEPT ![w] =
                [FreeWorker EXCEPT !.st = "run", !.src = j.src, !.job = j,
                                   !.stamp = now, !.row = nruns + 1]]
          /\ ev' = [op |-> "job_started", src |-> j.src, job |-> j]
     ELSE /\ UNCHANGED <<nruns, workers>>
          /\ ev' = [op |-> "job_skipped", src |-> j.src, job |-> j]
  /\ UNCHANGED <<cis, now, srcLastRun, sources, logdir, runvars>>

\* run_import lines 1145-1171 and 1190-1192: the run on thread w rewrites
\* its audit-log file and its raw-data file
WorkerWritesFiles(w) ==
  /\ workers[w].st = "run"
  /\ logdir' = logdir \cup {<<workers[w].src, workers[w].stamp, workers[w].row>>}
  /\ ev' = NoEv
  /\ UNCHANGED <<cis, now, srcLastRun, nruns, sources, scheduler, workers, runvars>>

\* run_import lines 1209-1212 or 1213-1220 and run_import_job lines 37-41:
\* the run ends, stamping last_run unless it failed, and the thread is idle
WorkerEnds(w, ok) ==
  /\ workers[w].st = "run"
  /\ srcLastRun' = IF ok THEN [srcLastRun EXCEPT ![workers[w].src] = now] ELSE srcLastRun
  /\ workers' = [workers EXCEPT ![w] = FreeWorker]
  /\ ev' = NoEv
  /\ UNCHANGED <<cis, now, nruns, sources, scheduler, logdir, runvars>>

\* a second of the clock passes
Tick ==
  /\ now < MaxTime
  /\ now' = now + 1
  /\ ev' = NoEv
  /\ UNCHANGED <<cis, srcLastRun, nruns, sources, scheduler, workers, logdir, runvars>>

\* ------------------------------------------------------------------------
\* Two runs on two executor threads, each with its own session
\* ------------------------------------------------------------------------
\* the sources whose runs execute side by side
ConcSources == {1, 2}

\* the CI store the two runs find
ConcStore == <<NewApiCI("a")>>

\* _process_record lines 1254-1275 on a given store: the rows .first() may
\* return for a record of source s, the id match if there is one, else the
\* key match
CandidatesOf(store, s, rec) ==
  LET mv == get_match_value(config, map_data(rec))
      ext == IF LookupExternalId(rec) = NoneV THEN {}
             ELSE {i \in 1..Len(store) : /\ store[i].external_id = LookupExternalId(rec)
                                         /\ store[i].import_source_id = s}
      key == {i \in 1..Len(store) :
                IF config.match_strategy = "case_insensitive"
                THEN ILike(store[i][key_field], mv)
                ELSE store[i][key_field] = mv}
  IN IF ext # {} THEN ext ELSE key

\* the UPDATE the session flushes at self.db.commit() (line 1464): it sets
\* the columns whose attribute differs from the value the session loaded,
\* and leaves the other columns of the stored row as they are
Flush(row, snap, new) ==
  [c \in DOMAIN row |-> IF new[c] # snap[c] THEN new[c] ELSE row[c]]

\* run_import_job lines 35-36 for source s on thread w, the first idle
\* thread, with the one record its connector yields
ConcStart(w, s, rec) ==
  /\ workers[w].st = "free"
  /\ \A v \in 1..(w - 1) : workers[v].st # "free"
  /\ \A v \in 1..MaxWorkers : workers[v].src # s
  /\ nruns < MaxRuns
  /\ nruns' = nruns + 1
  /\ workers' = [workers EXCEPT ![w] =
        [FreeWorker EXCEPT !.st = "run", !.src = s, !.stamp = now,
                           !.row = nruns + 1, !.rec = rec]]
  /\ ev' = NoEv
  /\ UNCHANGED <<cis, now, srcLastRun, sources, scheduler, logdir, runvars>>

\* _process_record lines 1246-1250 on thread w: no reconciliation key
WorkerNoKey(w) ==
  /\ workers[w].st = "run"
  /\ get_match_value(config, map_data(workers[w].rec)) = NoneV
  /\ workers' = [workers EXCEPT ![w].st = "done"]
  /\ ev' = NoEv
  /\ UNCHANGED <<cis, now, srcLastRun, nruns, sources, scheduler, logdir, runvars>>

\* _process_record lines 1254-1275 on thread w: the queries return row i,
\* which the session of the thread holds from now on
WorkerLookup(w, i) ==
  /\ workers[w].st = "run"
  /\ get_match_value(config, map_data(workers[w].rec)) # NoneV
  /\ i \in CandidatesOf(cis, workers[w].src, workers[w].rec)
  /\ workers' = [workers EXCEPT ![w].st = "found", ![w].idx = i, ![w].snap = cis[i]]
  /\ ev' = NoEv
  /\ UNCHANGED <<cis, now, srcLastRun, nruns, sources, scheduler, logdir, runvars>>

\* _process_record line 1284 on thread w: no row found, AttributeError
WorkerUnmatched(w) ==
  /\ workers[w].st = "run"
  /\ get_match_value(config, map_data(workers[w].rec)) # NoneV
  /\ CandidatesOf(cis, workers[w].src, workers[w].rec) = {}
  /\ workers' = [workers EXCEPT ![w].st = "done"]
  /\ ev' = NoEv
  /\ UNCHANGED <<cis, now, srcLastRun, nruns, sources, scheduler, logdir, runvars>>

\* _update_ci on thread w: the attributes are computed from the row as the
\* session loaded it, and the commit flushes the changed columns
WorkerUpdate(w) ==
  /\ workers[w].st = "found"
  /\ LET me == workers[w]
         new == UpdatedCI(me.snap, map_data(me.rec), me.rec, SourceType(me.src), now)
     IN cis' = [cis EXCEPT ![me.idx] = Flush(@, me.snap, new)]
  /\ workers' = [workers EXCEPT ![w].st = "done"]
  /\ ev' = NoEv
  /\ UNCHANGED <<now, srcLastRun, nruns, sources, scheduler, logdir, runvars>>

Next ==
  \/ \E n \in RawTitles \ {NoneV} : ApiCreate(n)
  \/ \E i \in 1..MaxCIs : ApiDelete(i)
  \/ \E s \in SourceIds : StartRun(s, FALSE)
  \/ \E s \in SourceIds : StartRunUnknown(s)
  \/ ConnectorRaises
  \/ \E b \in Batches : FetchBatch(b)
  \/ RecordNoKey
  \/ \E i \in 1..MaxCIs : RecordUpdate(i)
  \/ RecordUnmatched
  \/ EndBatch
  \/ Finalize(FALSE)

Spec == Init /\ [][Next]_vars

\* Two runs of one source over the same upstream records: the first run is
\* remembered and the connector of a replay run yields the same batches again
NextIdem ==
  \/ \E n \in RawTitles \ {NoneV} : ApiCreate(n)
  \/ \E s \in SourceIds, replay \in BOOLEAN : StartRun(s, replay)
  \/ \E b \in Batches : FetchBatch(b)
  \/ RecordNoKey
  \/ \E i \in 1..MaxCIs : RecordUpdate(i)
  \/ RecordUnmatched
  \/ EndBatch
  \/ Finalize(TRUE)

SpecIdem == Init /\ [][NextIdem]_vars

\* Runs of sources with relationship_mapping configured, replays included
InitRel ==
  /\ cis = <<>>
  /\ now = 1
  /\ srcLastRun = [s \in SourceIds |-> 0]
  /\ nruns = 0
  /\ nrecs = 0
  /\ pc = "idle"
  /\ run = NoRun
  /\ log = InitLog
  /\ logdb = InitLog
  /\ auditFile = NoFile
  /\ rawFile = NoFile
  /\ config \in RelConfigs
  /\ prev = NoPrev
  /\ ev = NoEv
  /\ unmatched = {}
  /\ rels = <<>>
  /\ logdir = {}
  /\ workers = NoWorkers
  /\ scheduler = NoScheduler
  /\ sources = NoSources
  /\ schema = NoSchema
  /\ idoit = NoIdoit
  /\ lastOk = [s \in SourceIds |-> 0]
  /\ mapper = NoMapper

NextRel ==
  \/ \E n \in RawTitles \ {NoneV} : ApiCreate(n)
  \/ \E s \in SourceIds, replay \in BOOLEAN : StartRun(s, replay)
  \/ \E b \in RelBatches : FetchBatch(b)
  \/ \E i \in 1..MaxCIs : RecordUpdate(i)
  \/ RecordUnmatched
  \/ EndBatch
  \/ BeginRelPass
  \/ RelRaise
  \/ RelNoTarget
  \/ \E j \in 1..MaxCIs : RelLink(j)
  \/ Finalize(TRUE)

SpecRel == InitRel /\ [][NextRel]_vars

\* Sources created, changed and deleted through the routes while the
\* scheduler fires their cron jobs and the manual runs
InitSched ==
  /\ cis = <<>>
  /\ now = 1
  /\ srcLastRun = [s \in SourceIds |-> 0]
  /\ nruns = 0
  /\ nrecs = 0
  /\ pc = "idle"
  /\ run = NoRun
  /\ log = InitLog
  /\ logdb = InitLog
  /\ auditFile = NoFile
  /\ rawFile = NoFile
  /\ config = [match_strategy |-> "exact", cr_description |-> "source",
               update_mode |-> "upsert", relationship_mapping |-> <<>>]
  /\ prev = NoPrev
  /\ ev = NoEv
  /\ unmatched = {}
  /\ rels = <<>>
  /\ lastOk = [s \in SourceIds |-> 0]
  /\ mapper = NoMapper
  /\ idoit = NoIdoit
  /\ schema = NoSchema
  /\ sources = NoSources
  /\ scheduler = NoScheduler
  /\ workers = NoWorkers
  /\ logdir = {}

NextSched ==
  \/ \E s \in SchedSources, active \in BOOLEAN, cron \in BOOLEAN : CreateSource(s, active, cron)
  \/ \E s \in SchedSources, active \in BOOLEAN : UpdateSource(s, active)
  \/ \E s \in SchedSources : DeleteSource(s)
  \/ \E s \in SchedSources : ManualTrigger(s)
  \/ \E j \in JobIds, w \in 1..MaxWorkers : RunImportJob(j, w)
  \/ \E w \in 1..MaxWorkers : WorkerWritesFiles(w)
  \/ \E w \in 1..MaxWorkers, ok \in BOOLEAN : WorkerEnds(w, ok)
  \/ Tick

SpecSched == InitSched /\ [][NextSched]_vars

\* Runs of two sources side by side on one CI store
InitConc ==
  /\ cis = ConcStore
  /\ now = 1
  /\ srcLastRun = [s \in SourceIds |-> 0]
  /\ nruns = 0
  /\ nrecs = 0
  /\ pc = "idle"
  /\ run = NoRun
  /\ log = InitLog
  /\ logdb = InitLog
  /\ auditFile = NoFile
  /\ rawFile = NoFile
  /\ config \in Configs
  /\ prev = NoPrev
  /\ ev = NoEv
  /\ unmatched = {}
  /\ rels = <<>>
  /\ lastOk = [s \in SourceIds |-> 0]
  /\ mapper = NoMapper
  /\ idoit = NoIdoit
  /\ schema = NoSchema
  /\ sources = NoSources
  /\ scheduler = NoScheduler
  /\ workers = NoWorkers
  /\ logdir = {}

NextConc ==
  \/ \E w \in 1..MaxWorkers, s \in ConcSources, rec \in RawRecords : ConcStart(w, s, rec)
  \/ \E w \in 1..MaxWorkers : WorkerNoKey(w)
  \/ \E w \in 1..MaxWorkers, i \in 1..MaxCIs : WorkerLookup(w, i)
  \/ \E w \in 1..MaxWorkers : WorkerUnmatched(w)
  \/ \E w \in 1..MaxWorkers : WorkerUpdate(w)

SpecConc == InitConc /\ [][NextConc]_vars

\* A schema introspection followed by the mapping of one of its field paths
InitSchema ==
  /\ cis = <<>>
  /\ now = 1
  /\ srcLastRun = [s \in SourceIds |-> 0]
  /\ nruns = 0
  /\ nrecs = 0
  /\ pc = "idle"
  /\ run = NoRun
  /\ log = InitLog
  /\ logdb = InitLog
  /\ auditFile = NoFile
  /\ rawFile = NoFile
  /\ config = [match_strategy |-> "exact", cr_description |-> "source",
               update_mode |-> "upsert", relationship_mapping |-> <<>>]
  /\ prev = NoPrev
  /\ ev = NoEv
  /\ unmatched = {}
  /\ rels = <<>>
  /\ logdir = {}
  /\ workers = NoWorkers
  /\ scheduler = NoScheduler
  /\ sources = NoSources
  /\ lastOk = [s \in SourceIds |-> 0]
  /\ mapper = NoMapper
  /\ idoit = NoIdoit
  /\ schema \in [state : {"start"}, sample : Samples, keys : {{}}]

NextSchema ==
  \/ FlattenSchema
  \/ \E path \in SchemaPaths : UseSchemaField(path)
  \/ MapDataCall

SpecSchema == InitSchema /\ [][NextSchema]_vars

\* One call of IDoitConnector.fetch_data, consumed to its end
InitIdoit ==
  /\ cis = <<>>
  /\ now = 1
  /\ srcLastRun = [s \in SourceIds |-> 0]
  /\ nruns = 0
  /\ nrecs = 0
  /\ pc = "idle"
  /\ run = NoRun
  /\ log = InitLog
  /\ logdb = InitLog
  /\ auditFile = NoFile
  /\ rawFile = NoFile
  /\ config = [match_strategy |-> "exact", cr_description |-> "source",
               update_mode |-> "upsert", relationship_mapping |-> <<>>]
  /\ prev = NoPrev
  /\ ev = NoEv
  /\ unmatched = {}
  /\ rels = <<>>
  /\ logdir = {}
  /\ workers = NoWorkers
  /\ scheduler = NoScheduler
  /\ sources = NoSources
  /\ schema = NoSchema
  /\ lastOk = [s \in SourceIds |-> 0]
  /\ mapper = NoMapper
  /\ idoit = [NoIdoit EXCEPT !.state = "start"]

NextIdoit ==
  \/ \E n \in 0..MaxIds : ListIds(n)
  \/ ListIdsFails
  \/ ChunkOk
  \/ \E why \in {"error", "raised"} : ChunkSkipped(why)
  \/ PagingDone

SpecIdoit == InitIdoit /\ [][NextIdoit]_vars

\* One service at a time running to its end: run_import is one sequential
\* call, so a run that can take a step eventually takes one
InitLive ==
  /\ cis = <<>>
  /\ now = 1
  /\ srcLastRun = [s \in SourceIds |-> 0]
  /\ nruns = 0
  /\ nrecs = 0
  /\ pc = "idle"
  /\ run = NoRun
  /\ log = InitLog
  /\ logdb = InitLog
  /\ auditFile = NoFile
  /\ rawFile = NoFile
  /\ config = [match_strategy |-> "case_insensitive", cr_description |-> "source",
               update_mode |-> "upsert", relationship_mapping |-> <<>>]
  /\ prev = NoPrev
  /\ ev = NoEv
  /\ unmatched = {}
  /\ rels = <<>>
  /\ logdir = {}
  /\ workers = NoWorkers
  /\ scheduler = NoScheduler
  /\ sources = NoSources
  /\ schema = NoSchema
  /\ idoit = NoIdoit
  /\ lastOk = [s \in SourceIds |-> 0]
  /\ mapper = NoMapper

\* the steps of run_import after the service is constructed
RunStep ==
  \/ ConnectorRaises
  \/ \E b \in Batches : FetchBatch(b)
  \/ RecordNoKey
  \/ \E i \in 1..MaxCIs : RecordUpdate(i)
  \/ RecordUnmatched
  \/ EndBatch
  \/ Finalize(FALSE)

NextLive ==
  \/ \E n \in RawTitles \ {NoneV} : ApiCreate(n)
  \/ \E s \in SourceIds : StartRun(s, FALSE)
  \/ \E s \in SourceIds : StartRunUnknown(s)
  \/ RunStep

SpecLive == InitLive /\ [][NextLive]_vars /\ WF_vars(RunStep)

\* Runs over records that carry their id under any of the keys id, ID and Id
ExtRecords ==
  [id : RawIds, ID : {NoneV, "8"}, Id : {NoneV, "9"}, Title : {"a"}, Desc : {"x "}]

ExtBatches == UNION {[1..n -> ExtRecords] : n \in 1..MaxRecs}

NextExt ==
  \/ \E n \in RawTitles \ {NoneV} : ApiCreate(n)
  \/ \E s \in SourceIds : StartRun(s, FALSE)
  \/ \E b \in ExtBatches : FetchBatch(b)
  \/ \E i \in 1..MaxCIs : RecordUpdate(i)
  \/ RecordUnmatched
  \/ EndBatch
  \/ Finalize(FALSE)

SpecExt == Init /\ [][NextExt]_vars

\* Runs over a store that holds one row whose raw_data was written outside
\* the import engine: NULL, another source's section, or a malformed value
InitRaw ==
  /\ \E n \in {"a", "A"}, rd \in MalformedRaw \cup {RawNull, RawObject([k \in {"ldap"} |-> "old"])} :
       cis = <<[NewApiCI(n) EXCEPT !.raw_data = rd]>>
  /\ now = 1
  /\ srcLastRun = [s \in SourceIds |-> 0]
  /\ nruns = 0
  /\ nrecs = 0
  /\ pc = "idle"
  /\ run = NoRun
  /\ log = InitLog
  /\ logdb = InitLog
  /\ auditFile = NoFile
  /\ rawFile = NoFile
  /\ config \in Configs
  /\ prev = NoPrev
  /\ ev = NoEv
  /\ unmatched = {}
  /\ rels = <<>>
  /\ logdir = {}
  /\ workers = NoWorkers
  /\ scheduler = NoScheduler
  /\ sources = NoSources
  /\ schema = NoSchema
  /\ idoit = NoIdoit
  /\ lastOk = [s \in SourceIds |-> 0]
  /\ mapper = NoMapper

NextRaw ==
  \/ \E s \in SourceIds : StartRun(s, FALSE)
  \/ \E b \in Batches : FetchBatch(b)
  \/ RecordNoKey
  \/ \E i \in 1..MaxCIs : RecordUpdate(i)
  \/ RecordUnmatched
  \/ EndBatch
  \/ Finalize(FALSE)

SpecRaw == InitRaw /\ [][NextRaw]_vars

\* A FieldMapper over any field_mapping, handed any raw record
InitMap ==
  /\ cis = <<>>
  /\ now = 1
  /\ srcLastRun = [s \in SourceIds |-> 0]
  /\ nruns = 0
  /\ nrecs = 0
  /\ pc = "idle"
  /\ run = NoRun
  /\ log = InitLog
  /\ logdb = InitLog
  /\ auditFile = NoFile
  /\ rawFile = NoFile
  /\ config = [match_strategy |-> "exact", cr_description |-> "source",
               update_mode |-> "upsert", relationship_mapping |-> <<>>]
  /\ prev = NoPrev
  /\ ev = NoEv
  /\ unmatched = {}
  /\ rels = <<>>
  /\ logdir = {}
  /\ workers = NoWorkers
  /\ scheduler = NoScheduler
  /\ sources = NoSources
  /\ schema = NoSchema
  /\ idoit = NoIdoit
  /\ lastOk = [s \in SourceIds |-> 0]
  /\ mapper \in [called : {FALSE}, field_mapping : FieldMappings,
                 source_data : SourceData, mapped_data : {<<>>}]

NextMap == MapDataCall

SpecMap == InitMap /\ [][NextMap]_vars

\* ------------------------------------------------------------------------
\* Properties
\* ------------------------------------------------------------------------
\* the row a record-level update acted on, as it is now
Touched == cis[ev.idx]

\* the source kind of the run in progress
Kind == SourceType(run.src)

\* two key values are the same reconciliation key under the match strategy
SameKey(a, b) ==
  IF config.match_strategy = "case_insensitive" THEN Lower(a) = Lower(b) ELSE a = b

\* every row has its own reconciliation key, so a key lookup has one candidate
KeysDistinct ==
  \A i, j \in 1..Len(cis) : i # j => ~SameKey(cis[i][key_field], cis[j][key_field])

\* C1: idempotence. When a run over exactly the batches of the previous
\* finalized run of the same source ends, it reports records_updated = 0 and
\* every row has the name, description, external_id and deleted_at the
\* previous run left. Stated for stores in which every row has its own key.
C1_Idempotence ==
  (pc = "done" /\ ev.op = "final" /\ ev.replay /\ KeysDistinct)
    => (logdb.records_updated = 0 /\ ev.same)

\* C2: identity stability. A source whose earlier run imported a keyed,
\* unmatched record carrying an id owns a row with that id (the create
\* branch); when a later run of the source yields the id under another name,
\* the record is resolved by (external_id, import_source_id) and updates that
\* row; it neither fails nor is resolved by the key field.
C2_IdentityStability ==
  (/\ pc = "batch"
   /\ ev.op \in {"update", "unmatched"}
   /\ ev.rec.id # NoneV
   /\ \E u \in unmatched : /\ u[1] = run.src /\ u[2] = ev.rec.id
                           /\ u[3] # ev.rec.Title /\ u[4] < nruns)
    => (ev.op = "update" /\ ev.via = "external_id")

ActiveKeyUnique(rows) ==
  \A i, j \in 1..Len(rows) :
    (i # j /\ rows[i].deleted_at = 0 /\ rows[j].deleted_at = 0)
      => ~SameKey(rows[i][key_field], rows[j][key_field])

C5_RawDataIsolation ==
  ev.op = "update" =>
    LET before == CurrentRaw(ev.before.raw_data)
        after == CurrentRaw(Touched.raw_data)
    IN /\ Touched.raw_data.tag = "object"
       /\ DOMAIN after = (DOMAIN before) \cup {Kind}
       /\ after[Kind] = ev.rec
       /\ \A k \in (DOMAIN before) \ {Kind} : after[k] = before[k]

\* C5 witness: an update by kind B of a row that held a section of kind A
C5_Witness ==
  /\ ev.op = "update"
  /\ \E k \in DOMAIN CurrentRaw(ev.before.raw_data) :
       k # Kind /\ CurrentRaw(ev.before.raw_data)[k] # ev.rec

\* C6: a field whose conflict_resolution is keep_local is not overwritten by
\* an update, and a field is overwritten only if should_update_field holds.
C6_KeepLocal ==
  ev.op = "update" =>
    \A f \in CanonFields :
      (Touched[f] # ev.before[f]) => should_update_field(config, f)

\* C7: resurrection. A soft-deleted row matched by an incoming record has
\* deleted_at cleared and last_sync set to the time of the update.
C7_Resurrection ==
  (ev.op = "update" /\ ev.before.deleted_at # 0)
    => (Touched.deleted_at = 0 /\ Touched.last_sync = now)

\* C7 witness: a soft-deleted row was matched and no mapped field changed
C7_Witness ==
  /\ ev.op = "update"
  /\ ev.before.deleted_at # 0
  /\ ev.before.last_sync # now
  /\ ChangedFields(ev.before, map_data(ev.rec)) = {}

\* the batch loop of the run has completed and the run is finalized
LoopCompleted == pc = "done" /\ ev.op = "final"

\* C8: partial-failure counters. The committed ImportLog of a finalized run
\* has records_processed = records yielded, records_failed = records that
\* failed, records_success = their difference.
C8_Counters ==
  LoopCompleted =>
    /\ logdb.records_processed = Len(Flatten(run.batches))
    /\ logdb.records_failed = run.nfail
    /\ logdb.records_success = logdb.records_processed - logdb.records_failed

C10_OuterFailure ==
  ev.op = "outer" =>
    /\ pc = "done"
    /\ logdb.status = "failed"
    /\ logdb.error_message = ev.msg
    /\ logdb.completed_at = now
    /\ log = logdb
    /\ logdb = [ev.committed EXCEPT !.status = "failed", !.error_message = ev.msg,
                                    !.completed_at = now]

\* C10 witness: the connector raised after a batch had been processed
C10_Witness ==
  /\ ev.op = "outer"
  /\ ev.msg = "Failed to connect"
  /\ Len(run.batches) > 0
  /\ logdb.records_processed > 0

\* a keyed record that matches no row is about to be processed
UnmatchedRecord ==
  /\ pc = "batch"
  /\ run.batch # <<>>
  /\ MatchValue # NoneV
  /\ Candidates = {}

\* C11: update_only mode. Processing a keyed record that matches no row
\* under update_mode = update_only leaves the store unchanged, adds one to
\* records_processed and records_success and leaves records_created,
\* records_updated and records_failed as they were.
C11_UpdateOnly ==
  [][(UnmatchedRecord /\ config.update_mode = "update_only")
       => /\ cis' = cis
          /\ log'.records_processed = log.records_processed + 1
          /\ log'.records_success = log.records_success + 1
          /\ log'.records_created = log.records_created
          /\ log'.records_updated = log.records_updated
          /\ log'.records_failed = log.records_failed]_vars

\* C12: upsert create. Processing a keyed record that matches no row under
\* update_mode = upsert adds exactly one row, adds one to records_success
\* and records_created, leaves records_failed as it was and appends one
\* 'created' audit entry.
C12_UpsertCreate ==
  [][(UnmatchedRecord /\ config.update_mode = "upsert")
       => /\ Len(cis') = Len(cis) + 1
          /\ log'.records_success = log.records_success + 1
          /\ log'.records_created = log.records_created + 1
          /\ log'.records_failed = log.records_failed
          /\ Len(run'.audit_log) = Len(run.audit_log) + 1
          /\ run'.audit_log[Len(run'.audit_log)].action = "created"]_vars

\* C13: create postcondition. The row created for a keyed, unmatched record
\* under update_mode = upsert is appended to the store with import_source_id
\* the source's id, external_id the record's id, last_sync the time of the
\* step, deleted_at NULL and raw_data holding exactly one section, keyed by
\* the source kind, whose value is the whole raw record.
C13_CreatePostcondition ==
  [][(UnmatchedRecord /\ config.update_mode = "upsert")
       => /\ Len(cis') = Len(cis) + 1
          /\ LET row == cis'[Len(cis')]
             IN /\ row.import_source_id = run.src
                /\ row.external_id = Rec.id
                /\ row.last_sync = now
                /\ row.deleted_at = 0
                /\ row.raw_data = RawObject([k \in {Kind} |-> Rec])]_vars

\* a keyed record that resolves to an update (a row matches) or to a create
\* (no row matches and update_mode is upsert) is about to be processed
ResolvesToCreateOrUpdate ==
  /\ pc = "batch"
  /\ run.batch # <<>>
  /\ MatchValue # NoneV
  /\ (Candidates # {} \/ config.update_mode = "upsert")

\* the audit entry and the counters the step must produce when row i matched
UpdateAccounted(i, e) ==
  LET diff == {f \in DOMAIN Mapped : StrOf(cis[i][f]) # StrOf(Mapped[f])}
  IN /\ e.ci_id = i
     /\ IF diff # {}
        THEN /\ e.action = "updated"
             /\ DOMAIN e.changes = diff
             /\ \A f \in diff :
                  e.changes[f] = [old |-> StrOf(cis[i][f]), new |-> StrOf(Mapped[f])]
             /\ log'.records_updated = log.records_updated + 1
        ELSE /\ e.action = "unchanged"
             /\ log'.records_updated = log.records_updated

\* C14: audit and update accounting. A record that resolves to a create or
\* an update appends exactly one audit entry: 'created' for a create,
\* 'updated' with the diff of exactly the changed fields when a mapped field
\* differs, 'unchanged' otherwise; records_updated grows by one exactly for
\* 'updated' and records_success grows by one in all three cases.
C14_AuditAccounting ==
  [][ResolvesToCreateOrUpdate
       => /\ Len(run'.audit_log) = Len(run.audit_log) + 1
          /\ SubSeq(run'.audit_log, 1, Len(run.audit_log)) = run.audit_log
          /\ log'.records_success = log.records_success + 1
          /\ LET e == run'.audit_log[Len(run'.audit_log)]
             IN IF Candidates = {}
                THEN /\ e.action = "created"
                     /\ log'.records_updated = log.records_updated
                ELSE \E i \in Candidates : UpdateAccounted(i, e)]_vars

\* the update and unchanged cases of C14 alone
C14_UpdateCases ==
  [][(ResolvesToCreateOrUpdate /\ Candidates # {})
       => /\ Len(run'.audit_log) = Len(run.audit_log) + 1
          /\ SubSeq(run'.audit_log, 1, Len(run.audit_log)) = run.audit_log
          /\ log'.records_success = log.records_success + 1
          /\ \E i \in Candidates :
               UpdateAccounted(i, run'.audit_log[Len(run'.audit_log)])]_vars

\* a batch boundary of a run in progress: the batch has been checkpointed
AtBatchBoundary == pc = "fetch" /\ run.batches # <<>>

\* C15: error list completeness. At every batch boundary and at the end of
\* the run the error list stored in ImportLog.details has one entry per
\* record counted in records_failed.
C15_ErrorList ==
  (AtBatchBoundary \/ LoopCompleted)
    => Len(logdb.details.errors) = logdb.records_failed

\* the run was stopped between two batches by the connector raising
StoppedBetweenBatches == pc = "done" /\ ev.op = "outer" /\ run.batches # <<>>

C17_Artifacts ==
  LoopCompleted
    => /\ logdb.status \in {"success", "partial_success"}
       /\ logdb.details.kind = "final"
       /\ auditFile = [exists |-> TRUE, content |-> run.audit_log]
       /\ rawFile.exists

\* no two relationships rows have the same source, target and type
RelTriplesUnique ==
  \A p, q \in 1..Len(rels) : p # q => rels[p] # rels[q]

\* the relationship_created entries of the run's audit log
RelCreatedEntries ==
  {k \in 1..Len(run.audit_log) : run.audit_log[k].action = "relationship_created"}

\* C18: relationship idempotence. The store never holds two relationships
\* rows with the same (source CI, target CI, type), and a run over exactly
\* the batches of the previous finalized run of the source creates no row
\* and no relationship_created audit entry.
C18_RelationshipIdempotence ==
  /\ RelTriplesUnique
  /\ (LoopCompleted /\ ev.replay) => (ev.relsame /\ RelCreatedEntries = {})

\* C18 for stores in which every row has its own reconciliation key, so
\* that a target name resolves to at most one row
C18_UnambiguousNames ==
  /\ RelTriplesUnique
  /\ (LoopCompleted /\ ev.replay /\ KeysDistinct) => (ev.relsame /\ RelCreatedEntries = {})

DotsOf(path) == {i \in 1..Len(path) : path[i] = "."}

NthDot(path, k) ==
  IF k = 0 THEN 0
  ELSE IF k = Cardinality(DotsOf(path)) + 1 THEN Len(path) + 1
  ELSE CHOOSE i \in DotsOf(path) : Cardinality({j \in DotsOf(path) : j < i}) = k - 1

Segment(path, k) == SubSeq(path, NthDot(path, k - 1) + 1, NthDot(path, k) - 1)

\* what the first k segments of the path lead to in the record: found is
\* false from the first segment on that is not a key of a nested mapping
Reached(data, path) ==
  LET n == Cardinality(DotsOf(path)) + 1
      at[k \in 0..n] ==
        IF k = 0 THEN [found |-> TRUE, v |-> DictV(data)]
        ELSE IF at[k - 1].found /\ at[k - 1].v.k = "dict"
                /\ Segment(path, k) \in DOMAIN at[k - 1].v.d
             THEN [found |-> TRUE, v |-> at[k - 1].v.d[Segment(path, k)]]
             ELSE [found |-> FALSE, v |-> PyNone]
  IN  at[n]

\* every segment resolves, and what it resolves to is a value (not None)
ResolvesToValue(data, path) ==
  Reached(data, path).found /\ Reached(data, path).v # PyNone

\* t is s without its surrounding whitespace
IsTrimOf(t, s) ==
  /\ \E i, j \in 0..Len(s) :
       /\ i + j <= Len(s)
       /\ t = SubSeq(s, i + 1, Len(s) - j)
       /\ \A m \in 1..i : s[m] \in Whitespace
       /\ \A m \in (Len(s) - j + 1)..Len(s) : s[m] \in Whitespace
  /\ t # <<>> => t[1] \notin Whitespace /\ t[Len(t)] \notin Whitespace

\* C20: field mapping. A call of map_data leaves the raw record and the
\* field_mapping as they were and returns a record whose fields are exactly
\* the canonical fields whose source path resolves, segment by segment
\* through nested mappings, to a value; a field's value is the resolved
\* value, trimmed of surrounding whitespace when it is a string and
\* unchanged otherwise. A path with a missing segment gives no field.
C20_FieldMapping ==
  [][(~mapper.called /\ mapper'.called)
       => /\ mapper'.source_data = mapper.source_data
          /\ mapper'.field_mapping = mapper.field_mapping
          /\ DOMAIN mapper'.mapped_data
               = {f \in DOMAIN mapper.field_mapping :
                    ResolvesToValue(mapper.source_data, mapper.field_mapping[f])}
          /\ \A f \in DOMAIN mapper'.mapped_data :
               LET v == Reached(mapper.source_data, mapper.field_mapping[f]).v
                   out == mapper'.mapped_data[f]
               IN  IF v.k = "str"
                   THEN out.k = "str" /\ IsTrimOf(out.s, v.s)
                   ELSE out = v]_vars

\* C20 witness: {"T": " a ", "O": {}} under {"name": "T", "owner": "O.E"}
\* came back as {"name": "a"}
C20_Witness ==
  /\ mapper.called
  /\ DOMAIN mapper.field_mapping = {"name", "owner"}
  /\ mapper.field_mapping["name"] = KeyT
  /\ mapper.field_mapping["owner"] = <<"O", ".", "E">>
  /\ DOMAIN mapper.source_data = {KeyT, KeyO}
  /\ mapper.source_data[KeyT] = StrV(<<" ", "a", " ">>)
  /\ mapper.source_data[KeyO].k = "dict"
  /\ KeyE \notin DOMAIN mapper.source_data[KeyO].d
  /\ DOMAIN mapper.mapped_data = {"name"}
  /\ mapper.mapped_data["name"] = StrV(<<"a">>)

\* a committed terminal status of the run in progress
Terminal == {"success", "partial_success", "failed"}

\* C23: incremental bookkeeping. The last_run put into a run's connector
\* configuration is the finalize time of the latest earlier run of that
\* source that ended success or partial_success, and absent (0) when there is
\* none; ImportSource.last_run is that time for every source; a step that
\* ends a run as failed leaves every last_run as it is, and no last_run
\* ever decreases.
C23_IncrementalBookkeeping ==
  /\ [](/\ pc # "idle" => run.last_run = run.okAtStart
        /\ srcLastRun = lastOk)
  /\ [][/\ (logdb.status = "running" /\ logdb'.status = "failed")
             => srcLastRun' = srcLastRun
         /\ \A s \in SourceIds : srcLastRun'[s] >= srcLastRun[s]]_vars

\* C23 witness: a run that followed a finalized run of its source had that
\* run's finalize time in its configuration, ended failed and left last_run
C23_Witness ==
  /\ pc = "done"
  /\ logdb.status = "failed"
  /\ run.last_run # 0
  /\ run.last_run = srcLastRun[run.src]

\* a record that matches a row is being processed
MatchedRecord ==
  /\ pc = "batch"
  /\ run.batch # <<>>
  /\ MatchValue # NoneV
  /\ Candidates # {}

\* C25: malformed persisted raw_data. A record that matches a row is
\* processed by an update and is not failed, whatever the row's raw_data
\* holds: nothing is added to the failed records or to the error list, the
\* run goes on, and records_success is incremented. When the raw_data of
\* the row was absent, not an object, or a string that does not parse to
\* one, it is afterwards an object whose only section is the run's source
\* kind, holding the raw record.
C25_MalformedRawData ==
  [][(MatchedRecord /\ run'.batch # run.batch)
       => /\ ev'.op = "update"
          /\ run'.nfail = run.nfail
          /\ run'.errors = run.errors
          /\ log'.records_failed = log.records_failed
          /\ log'.records_success = log.records_success + 1
          /\ pc' = "batch"
          /\ ev'.before.raw_data.tag # "object"
               => cis'[ev'.idx].raw_data
                    = RawObject([k \in {SourceType(run.src)} |-> ev'.rec])]_vars

\* C25 witness: a row whose raw_data was a string that is not JSON was updated
C25_Witness ==
  /\ ev.op = "update"
  /\ ev.before.raw_data = RawBadText
  /\ cis[ev.idx].raw_data = RawObject([k \in {Kind} |-> ev.rec])
  /\ log.records_success = 1
  /\ run.nfail = 0

\* C28: external-id key consistency. After an update from a record in which
\* the stable-identity lookup recognises an id (under id, ID or Id), the
\* updated row has that id as its external_id.
C28_ExternalIdKeys ==
  (ev.op = "update" /\ LookupExternalId(ev.rec) # NoneV)
    => Touched.external_id = LookupExternalId(ev.rec)

\* a run is executing run_import
InFlight == pc \in {"fetch", "batch", "rel"}

\* the run has ended and its row carries a terminal status and completed_at
Ended ==
  /\ pc = "done"
  /\ logdb.status \in Terminal
  /\ logdb.completed_at # 0

\* a step that writes an ImportLog row writes one, at the start of a run,
\* with status running (the row of an unknown source kind turns failed in
\* the same step of the model, ev keeps what __init__ committed)
RowCreation ==
  nruns' # nruns
    => /\ nruns' = nruns + 1
       /\ pc \in {"idle", "done"}
       /\ \/ logdb'.status = "running" /\ pc' = "fetch"
          \/ ev'.op = "outer" /\ ev'.committed.status = "running"

\* a step of a run on its row: a terminal status and its completed_at stay,
\* running is left only for a terminal status, and the run ends with one
RowTransitions ==
  nruns' = nruns
    => /\ (logdb.status \in Terminal
             => /\ logdb'.status = logdb.status
                /\ logdb'.completed_at = logdb.completed_at)
       /\ logdb'.status \in Terminal \cup {"running"}
       /\ (pc' = "done" => Ended')

\* C26: run state machine. ImportLog rows are created one per run, at its
\* start and with status running; a row with a terminal status keeps its
\* status and completed_at; a row never leaves running for anything but a
\* terminal status; and a run whose connector yields finitely many batches
\* eventually ends with a terminal status and completed_at set.
C26_RunStateMachine ==
  /\ [][RowCreation /\ RowTransitions]_vars
  /\ (InFlight ~> Ended)

\* C26 witness: the second run of the model has ended with a terminal status
C26_Witness ==
  /\ nruns = 2
  /\ Ended
  /\ run.batches # <<>>

\* the results of the requests that succeeded, in the order of the requests
RECURSIVE ResultsOfOk(_, _)
ResultsOfOk(requests, outcomes) ==
  IF requests = <<>> THEN <<>>
  ELSE (IF Head(outcomes) = "ok" THEN <<ChunkResult(Head(requests))>> ELSE <<>>)
         \o ResultsOfOk(Tail(requests), Tail(outcomes))

\* C24: paged fetch with skipped batches. The chunks requested so far are
\* non-empty, hold at most 50 ids each and, laid end to end, are the ids of
\* the listing from the first one on, in order; each was requested once. The
\* batches yielded are the results of the requests that succeeded, in
\* order. Once the listing has answered the generator does not raise, and
\* when it returns the chunks requested are all the ids: a failed chunk
\* stopped nothing.
C24_PagedFetch ==
  idoit.state \in {"paging", "done"}
    => /\ \A j \in 1..Len(idoit.requests) :
            Len(idoit.requests[j]) \in 1..chunk_size
       /\ Flatten(idoit.requests)
            = SubSeq(idoit.all_ids, 1, Len(Flatten(idoit.requests)))
       /\ Len(idoit.outcomes) = Len(idoit.requests)
       /\ idoit.yielded = ResultsOfOk(idoit.requests, idoit.outcomes)
       /\ idoit.state = "done" => Flatten(idoit.requests) = idoit.all_ids

\* C24 witness: 101 ids in three chunks, the second failed, the first and
\* the third yielded
C24_Witness ==
  /\ idoit.state = "done"
  /\ Len(idoit.all_ids) = 2 * chunk_size + 1
  /\ idoit.outcomes = <<"ok", "raised", "ok">>
  /\ Len(idoit.yielded) = 2
  /\ Len(idoit.yielded[2]) = 1

\* the value at the position a field path names in a sample object: a
\* segment is a key of the dict reached so far, or the index "0" of the
\* list reached so far, which stands for its first element
PositionValue(data, path) ==
  LET n == Cardinality(DotsOf(path)) + 1
      at[k \in 0..n] ==
        IF k = 0 THEN DictV(data)
        ELSE LET cur == at[k - 1]
                 seg == Segment(path, k)
             IN  IF cur.k = "dict" /\ seg \in DOMAIN cur.d THEN cur.d[seg]
                 ELSE IF cur.k = "list" /\ seg = <<"0">> /\ Len(cur.l) > 0 THEN cur.l[1]
                 ELSE PyNone
  IN  at[n]

\* C30: schema-to-mapper round trip. When a field path returned by
\* _flatten_schema for a sample object is used as the source path of a
\* canonical field and the value at that position of the object is not
\* null, map_data on that object returns the field with that value
\* (trimmed when it is a string).
C30_SchemaRoundTrip ==
  (schema.state = "flattened" /\ mapper.called /\ "name" \in DOMAIN mapper.field_mapping)
    => LET v == PositionValue(schema.sample, mapper.field_mapping["name"])
       IN  v # PyNone
             => /\ "name" \in DOMAIN mapper.mapped_data
                /\ mapper.mapped_data["name"] = FieldMapper_transform_value(v)

\* the runs in flight: the threads inside run_import
RunningWorkers == {w \in 1..MaxWorkers : workers[w].st = "run"}

\* C21: same-source mutual exclusion. No two runs in flight are runs of the
\* same source.
C21_SameSourceExclusion ==
  \A w1, w2 \in RunningWorkers : w1 # w2 => workers[w1].src # workers[w2].src

\* the job whose trigger fired in this step was for a source that has no
\* row or whose row is not active
FiredForUnrunnable ==
  /\ ev'.op \in {"job_started", "job_skipped"}
  /\ \/ sources[ev'.src].state # "present"
     \/ ~sources[ev'.src].is_active

\* C27: inactive or missing sources never run. When run_import_job is
\* invoked for a source that has no row or whose row is not active, no
\* service is constructed and no run enters flight, no ImportLog row is
\* written, no CI is created or changed, and no last_run changes.
C27_UnrunnableSourcesNeverRun ==
  [][FiredForUnrunnable
       => /\ ev'.op = "job_skipped"
          /\ workers' = workers
          /\ nruns' = nruns
          /\ cis' = cis
          /\ srcLastRun' = srcLastRun
          /\ logdir' = logdir]_vars

\* C27 witness: the cron job of a source fired after the source was deleted
C27_Witness ==
  /\ ev.op = "job_skipped"
  /\ ev.job.kind = "cron"
  /\ sources[ev.src].state = "deleted"
  /\ nruns = 0

\* C29: distinct runs write distinct artifact files. Two writes to the
\* file of one source id and one timestamp are writes of the same run.
C29_DistinctArtifactFiles ==
  \A x, y \in logdir : (x[1] = y[1] /\ x[2] = y[2]) => x[3] = y[3]

\* the stores that processing rec as a record of source s can leave
SerialRecord(store, s, rec) ==
  LET mapped == map_data(rec)
      cand == CandidatesOf(store, s, rec)
  IN IF get_match_value(config, mapped) = NoneV \/ cand = {} THEN {store}
     ELSE {[store EXCEPT ![i] = UpdatedCI(store[i], mapped, rec, SourceType(s), now)] : i \in cand}

\* the record of the run of source s
RecordOf(s) == workers[CHOOSE w \in 1..MaxWorkers : workers[w].src = s].rec

\* the stores that the run of source s1 followed by the run of source s2 can leave
SerialOutcomes(s1, s2) ==
  UNION {SerialRecord(mid, s2, RecordOf(s2)) : mid \in SerialRecord(ConcStore, s1, RecordOf(s1))}

\* the runs of both sources have ended
BothRunsEnded ==
  \A s \in ConcSources : \E w \in 1..MaxWorkers : workers[w].src = s /\ workers[w].st = "done"

\* C22: independence of runs for different sources. When the runs of two
\* different sources have executed side by side, the CI store is one that
\* the two runs executed one after the other, in one of the two orders,
\* could have left.
C22_RunsSerializable ==
  BothRunsEnded => cis \in SerialOutcomes(1, 2) \cup SerialOutcomes(2, 1)

====
